---- MODULE Spec2Model ----
(***************************************************************************)
(* Bed status lifecycle of the bed management API.                         *)
(*                                                                         *)
(* The store is MongoDB: the `lits` collection (one document per bed), the *)
(* `historique_statuts` collection (the history ledger) and the `counters` *)
(* document `historique_statut_id`.  Route handlers are async functions:   *)
(* every `await` on a database call is a point where another request may   *)
(* run, so a handler is a sequence of steps, one per database call.        *)
(***************************************************************************)
EXTENDS Integers, Naturals, Sequences, FiniteSets, TLC

(***************************************************************************)
(* Bounds of the model.                                                    *)
(***************************************************************************)
MaxReq  == 3      \* requests started in one behaviour
MaxBeds == 2      \* bed documents in the collection
MaxLedger == 2    \* entries of a ledger given to a history read

(***************************************************************************)
(* Values.  0 stands for null / undefined of a nullable field.             *)
(***************************************************************************)
Null == 0

Procs    == {"r1", "r2"}            \* concurrently served requests
Services == {"A", "B"}
Genders  == {"F"}

\* req.user.NOM as set by the auth middleware: one user per connection
UserNOM(p) == IF p = "r1" THEN "alice" ELSE "bob"

\* The seeded sectors and services: both services in sector 1; sector 2 is
\* a sector that has no service
Secteurs == {1, 2}

ServiceDocs == [s \in Services |-> [ID_SERVICE |-> s, ID_SECTEUR |-> 1]]

\* The seeded users, by NOM, with their SERVICES_AUTORISES
UtilisateurDocs == [u \in {"alice", "bob"} |-> Services]

\* Status catalog seeded by the migrations: ids 1..6 plus 7 and 8
Libre        == 1
Occupe       == 2
ANettoyer    == 3
EnMaintenance == 4
HorsService  == 5
Reserve      == 6
StatusCatalog == 1..8

NowInit     == 5     \* server clock at start
CallerTime  == 1     \* a MAJ_STATUT value sent by a client

CleanT == 10         \* a CLEANING_TIME sent by a client
MaintT == 20         \* a MAINTENANCE_TIME sent by a client
ResT   == 30         \* a reservation time sent by a client
SubStd == 7          \* a SUB_ID_STATUT sent by a client

(***************************************************************************)
(* Request bodies of PATCH /lits/bed/:bedId/status.  ID_STATUT is a JSON   *)
(* value: a number, a numeric string, or absent.  A body carries the whole *)
(* payload (sub-status, the caller's MAJ_STATUT and every scheduled time)  *)
(* or, for the statuses that have a scheduled time in the handler, none.   *)
(***************************************************************************)
JNum(n) == [t |-> "number", v |-> n]

StatusInputs ==
    {JNum(n) : n \in {Libre, ANettoyer, EnMaintenance, Reserve, 9}}
      \cup {[t |-> "string", v |-> ANettoyer], [t |-> "undefined", v |-> Null]}

PatchBodies ==
    {[ID_STATUT |-> s, SUB_ID_STATUT |-> SubStd, MAJ_STATUT |-> CallerTime,
      CLEANING_TIME |-> CleanT, MAINTENANCE_TIME |-> MaintT,
      RESERVED_TIME |-> ResT] : s \in StatusInputs}
    \cup
    {[ID_STATUT |-> JNum(n), SUB_ID_STATUT |-> Null, MAJ_STATUT |-> Null,
      CLEANING_TIME |-> Null, MAINTENANCE_TIME |-> Null,
      RESERVED_TIME |-> Null] : n \in {ANettoyer, EnMaintenance}}

\* Bed identifiers <<service, number>>, printed `<service>-<NN>`
BedIds == Services \X (1..MaxBeds)

VARIABLES lits, hist, seq, now, pc, req, loc, resp, nreq, tasks, view,
          services, secteurs, utilisateurs,
          issued    \* history variable: every ID_LIT that was ever stored

vars == <<lits, hist, seq, now, pc, req, loc, resp, nreq, tasks, view,
          services, secteurs, utilisateurs, issued>>

NoReq  == [op |-> "none"]
NoLoc  == [k |-> "none"]
NoResp == [code |-> 0, op |-> "none"]
NoView == [q |-> "none"]

(***************************************************************************)
(* Mongoose number cast of a JSON value (SchemaNumber): numbers and        *)
(* numeric strings give the number, undefined stays undefined.             *)
(***************************************************************************)
CastNumber(j) == IF j.t = "undefined" THEN Null ELSE j.v

\* JavaScript `x === n` on a JSON value
StrictEq(j, n) == j.t = "number" /\ j.v = n

\* JavaScript Number(x) as used by createHistory
ToNumber(j) == j.v

(***************************************************************************)
(* litSchema: a new bed document with the schema defaults.                 *)
(***************************************************************************)
NewLit(id, service, gender, t) ==
    [ID_LIT |-> id, ID_SERVICE |-> service, ID_STATUT |-> Libre,
     SUB_ID_STATUT |-> Null, MAJ_STATUT |-> t, CLEANING_DATE |-> Null,
     MAINTENANCE_DATE |-> Null, RESERVED_DATE |-> Null, ACTIF |-> TRUE,
     GENDER |-> gender, isEmergency |-> FALSE]

Init ==
    /\ lits = <<>>
    /\ hist = <<>>
    /\ seq = 0
    /\ now = NowInit
    /\ pc = [p \in Procs |-> "idle"]
    /\ req = [p \in Procs |-> NoReq]
    /\ loc = [p \in Procs |-> NoLoc]
    /\ resp = [p \in Procs |-> NoResp]
    /\ nreq = 0
    /\ tasks = <<>>
    /\ view = NoView
    /\ services = ServiceDocs
    /\ secteurs = Secteurs
    /\ utilisateurs = UtilisateurDocs
    /\ issued = {}

\* res.status(code).json(...): the handler of request r is over
Reply(p, r, code) ==
    /\ pc' = [pc EXCEPT ![p] = "idle"]
    /\ req' = [req EXCEPT ![p] = NoReq]
    /\ loc' = [loc EXCEPT ![p] = NoLoc]
    /\ resp' = [resp EXCEPT ![p] = [code |-> code, op |-> r.op]]


\* a document with this ID_LIT is stored
Found(coll, id) == id \in DOMAIN coll

\* the null that findOne returns when no document matches
NoDoc == [ID_LIT |-> <<"", 0>>]

\* Lit.findOne({ID_LIT: id}) creating the document when it is missing
FindOneUpsert(coll, id) ==
    IF id \in DOMAIN coll THEN coll[id] ELSE NewLit(id, id[1], "", Null)

\* Lit.findOne({ID_LIT: id})
FindOne(coll, id) == IF id \in DOMAIN coll THEN coll[id] ELSE NoDoc

(***************************************************************************)
(* POST /lits                                                              *)
(***************************************************************************)
CreateBodies == [ID_SERVICE : Services \cup {""}, GENDER : Genders]

\* Lit.find({ID_LIT: /^<prefix>\d{2}$/}).sort({ID_LIT: -1}).limit(1)
LastLitNum(coll, service) ==
    LET nums == {id[2] : id \in {i \in DOMAIN coll : i[1] = service /\ i[2] \in 0..99}}
    IN  IF nums = {} THEN 0 ELSE CHOOSE n \in nums : \A m \in nums : m <= n

\* const newId = `${prefix}${String(nextNum).padStart(2, "0")}`
NextLitId(coll, service) == <<service, LastLitNum(coll, service) + 1>>

\* first step: read the highest existing id of the service
CreateLit_find(p) ==
    /\ pc[p] = "create_find"
    /\ IF req[p].body.ID_SERVICE = ""
         THEN Reply(p, req[p], 400)
         ELSE /\ pc' = [pc EXCEPT ![p] = "create_save"]
              /\ loc' = [loc EXCEPT ![p] =
                   [k |-> "create", newId |-> NextLitId(lits, req[p].body.ID_SERVICE)]]
              /\ UNCHANGED <<req, resp>>
    /\ UNCHANGED <<lits, hist, seq, now, nreq, tasks, view,
                 services, secteurs, utilisateurs, issued>>

\* second step: lit.save() inserts; the unique index on ID_LIT rejects a
\* duplicate
CreateLit_save(p) ==
    /\ pc[p] = "create_save"
    /\ LET id == loc[p].newId
           body == req[p].body
       IN  IF id \in DOMAIN lits
             THEN /\ Reply(p, req[p], 400)
                  /\ UNCHANGED <<lits, issued>>
             ELSE /\ lits' = (id :> NewLit(id, body.ID_SERVICE, body.GENDER, now)) @@ lits
                  /\ issued' = issued \cup {id}
                  /\ Reply(p, req[p], 201)
    /\ UNCHANGED <<hist, seq, now, nreq, tasks, view,
                 services, secteurs, utilisateurs>>

(***************************************************************************)
(* PATCH /lits/bed/:bedId/status                                           *)
(***************************************************************************)
\* the assignments with lit.ACTIF = Number(ID_STATUT) === 1 among them
PatchAssignActif(lit, body) ==
    [lit EXCEPT
       !.ID_STATUT = CastNumber(body.ID_STATUT),
       !.ACTIF = (CastNumber(body.ID_STATUT) = Libre),
       !.MAJ_STATUT = body.MAJ_STATUT,
       !.SUB_ID_STATUT = IF StrictEq(body.ID_STATUT, ANettoyer)
                           THEN body.SUB_ID_STATUT ELSE Null,
       !.CLEANING_DATE = IF StrictEq(body.ID_STATUT, ANettoyer)
                           THEN body.CLEANING_TIME ELSE Null,
       !.MAINTENANCE_DATE = IF StrictEq(body.ID_STATUT, EnMaintenance)
                              THEN body.MAINTENANCE_TIME ELSE Null]

\* the assignments to the loaded document
PatchAssign(lit, body) ==
    [lit EXCEPT
       !.ID_STATUT = CastNumber(body.ID_STATUT),
       !.MAJ_STATUT = body.MAJ_STATUT,
       !.SUB_ID_STATUT = IF StrictEq(body.ID_STATUT, ANettoyer)
                           THEN body.SUB_ID_STATUT ELSE Null,
       !.CLEANING_DATE = IF StrictEq(body.ID_STATUT, ANettoyer)
                           THEN body.CLEANING_TIME ELSE Null,
       !.MAINTENANCE_DATE = IF StrictEq(body.ID_STATUT, EnMaintenance)
                              THEN body.MAINTENANCE_TIME ELSE Null]

\* mongoose marks a path modified when the assigned value differs from the
\* loaded one; save() writes the modified paths only
ModifiedPaths(old, new) == {f \in DOMAIN old : old[f] /= new[f]}

\* litSchema.pre("save"): MAJ_STATUT is stamped when ID_STATUT was modified
PreSaveLit(doc, mod, t) ==
    IF "ID_STATUT" \in mod THEN [doc EXCEPT !.MAJ_STATUT = t] ELSE doc

PreSaveMod(mod) ==
    IF "ID_STATUT" \in mod THEN mod \cup {"MAJ_STATUT"} ELSE mod

\* updateOne({_id}, {$set: <modified paths>})
WritePaths(stored, doc, mod) ==
    [f \in DOMAIN stored |-> IF f \in mod THEN doc[f] ELSE stored[f]]

\* a save that closes the open tasks of the saved bed
TasksClosedOnSave(ts, lit) ==
    [t \in DOMAIN ts |->
       IF ts[t].bedId = lit.ID_LIT THEN [ts[t] EXCEPT !.isDone = TRUE] ELSE ts[t]]

\* what lit.save() makes of the tasks collection: the pre-save hook stamps
\* MAJ_STATUT only, and no handler code writes a task
TasksOnSave(ts, lit) == ts

\* Lit.findOne, the not-found and ACTIF checks, and the assignments
PatchStatus_find(p) ==
    /\ pc[p] = "patch_find"
    /\ LET found == FindOne(lits, req[p].bedId)
       IN  IF found = NoDoc
             THEN Reply(p, req[p], 404)
             ELSE IF ~ found.ACTIF
               THEN Reply(p, req[p], 400)
               ELSE LET lit == PatchAssign(found, req[p].body)
                    IN /\ pc' = [pc EXCEPT ![p] = "patch_save"]
                       /\ loc' = [loc EXCEPT ![p] =
                            [k |-> "patch", lit |-> lit,
                             mod |-> ModifiedPaths(found, lit),
                             previousStatus |-> found.ID_STATUT,
                             histId |-> Null]]
                       /\ UNCHANGED <<req, resp>>
    /\ UNCHANGED <<lits, hist, seq, now, nreq, tasks, view,
                 services, secteurs, utilisateurs, issued>>

\* await lit.save(): validation, pre-save hook, write of the modified paths
PatchStatus_save(p) ==
    /\ pc[p] = "patch_save"
    /\ LET id  == req[p].bedId
           doc == PreSaveLit(loc[p].lit, loc[p].mod, now)
           mod == PreSaveMod(loc[p].mod)
       IN  IF loc[p].lit.ID_STATUT = Null
             THEN \* ValidationError: Path `ID_STATUT` is required
                  /\ Reply(p, req[p], 400)
                  /\ UNCHANGED <<lits, tasks>>
             ELSE IF mod /= {} /\ ~ Found(lits, id)
               THEN \* DocumentNotFoundError
                    /\ Reply(p, req[p], 400)
                    /\ UNCHANGED <<lits, tasks>>
               ELSE /\ lits' = IF mod = {} THEN lits
                               ELSE [lits EXCEPT ![id] = WritePaths(lits[id], doc, mod)]
                    /\ tasks' = TasksOnSave(tasks, doc)
                    /\ pc' = [pc EXCEPT ![p] = "patch_counter"]
                    /\ loc' = [loc EXCEPT ![p].lit = doc, ![p].mod = {}]
                    /\ UNCHANGED <<req, resp>>
    /\ UNCHANGED <<hist, seq, now, nreq, view,
                 services, secteurs, utilisateurs, issued>>

\* the greatest ID_HIST of the ledger
LastHistId(ledger) ==
    IF ledger = <<>> THEN 0
    ELSE LET ids == {ledger[i].ID_HIST : i \in DOMAIN ledger}
         IN  CHOOSE n \in ids : \A m \in ids : m <= n

\* an id taken from the last stored record instead of the counter
NextHistIdFromLast(counterSeq, ledger) == LastHistId(ledger) + 1

\* createHistory: findOneAndUpdate({_id}, {$inc: {seq: 1}}, {upsert, after})
NextHistId(counterSeq, ledger) == counterSeq + 1

PatchStatus_counter(p) ==
    /\ pc[p] = "patch_counter"
    /\ seq' = NextHistId(seq, hist)
    /\ loc' = [loc EXCEPT ![p].histId = NextHistId(seq, hist)]
    /\ pc' = [pc EXCEPT ![p] = "patch_hist"]
    /\ UNCHANGED <<lits, hist, now, req, resp, nreq, tasks, view,
                 services, secteurs, utilisateurs, issued>>

\* a record whose STATUT_PRECEDENT is read after the assignment
HistoryRecordAfter(p, id, t) ==
    [ID_HIST |-> id,
     ID_LIT |-> loc[p].lit.ID_LIT,
     ID_SERVICE |-> loc[p].lit.ID_SERVICE,
     ID_STATUT |-> ToNumber(req[p].body.ID_STATUT),
     DATE_HEURE |-> t,
     AUTEUR |-> UserNOM(p),
     STATUT_PRECEDENT |-> loc[p].lit.ID_STATUT]

\* createHistory: the record built from the caller's data
HistoryRecord(p, id, t) ==
    [ID_HIST |-> id,
     ID_LIT |-> loc[p].lit.ID_LIT,
     ID_SERVICE |-> loc[p].lit.ID_SERVICE,
     ID_STATUT |-> ToNumber(req[p].body.ID_STATUT),
     DATE_HEURE |-> t,
     AUTEUR |-> UserNOM(p),
     STATUT_PRECEDENT |-> loc[p].previousStatus]

\* a write that replaces the entry the bed already has, if any
SaveHistoryUpsert(ledger, rec) ==
    IF \E i \in DOMAIN ledger : ledger[i].ID_LIT = rec.ID_LIT
      THEN [i \in DOMAIN ledger |->
              IF ledger[i].ID_LIT = rec.ID_LIT THEN rec ELSE ledger[i]]
      ELSE Append(ledger, rec)

\* new this(...).save(): the insert of one more document
SaveHistory(ledger, rec) == Append(ledger, rec)

\* createHistory: historyRecord.save().  The write can fail (the database
\* rejects it, or the unique index on ID_HIST does); the handler's catch
\* answers 400.
PatchStatus_history(p) ==
    /\ pc[p] = "patch_hist"
    /\ \E dbOk \in BOOLEAN :
         IF dbOk /\ \A i \in DOMAIN hist : hist[i].ID_HIST /= loc[p].histId
           THEN /\ hist' = SaveHistory(hist, HistoryRecord(p, loc[p].histId, now))
                /\ pc' = [pc EXCEPT ![p] = "patch_reply"]
                /\ UNCHANGED <<req, loc, resp>>
           ELSE /\ Reply(p, req[p], 400)
                /\ UNCHANGED hist
    /\ UNCHANGED <<lits, seq, now, nreq, tasks, view,
                 services, secteurs, utilisateurs, issued>>

\* const updatedLit = await Lit.findOne(...); res.json(updatedLit)
PatchStatus_reply(p) ==
    /\ pc[p] = "patch_reply"
    /\ Reply(p, req[p], 200)
    /\ UNCHANGED <<lits, hist, seq, now, nreq, tasks, view,
                 services, secteurs, utilisateurs, issued>>

(***************************************************************************)
(* PUT /lits/:id                                                           *)
(***************************************************************************)
PutBodies ==
    {[ID_STATUT |-> Occupe],
     [ACTIF |-> FALSE],
     [CLEANING_DATE |-> CleanT],
     [ID_STATUT |-> Reserve, RESERVED_DATE |-> ResT]}

\* Lit.findOne({ID_LIT: req.params.id})
PutLit_find(p) ==
    /\ pc[p] = "put_find"
    /\ IF FindOne(lits, req[p].bedId) = NoDoc
         THEN Reply(p, req[p], 404)
         ELSE /\ pc' = [pc EXCEPT ![p] = "put_update"]
              /\ UNCHANGED <<req, loc, resp>>
    /\ UNCHANGED <<lits, hist, seq, now, nreq, tasks, view,
                 services, secteurs, utilisateurs, issued>>

\* Lit.findOneAndUpdate({ID_LIT}, updateData, {new, runValidators})
UpdateFields(stored, upd) ==
    [f \in DOMAIN stored |-> IF f \in DOMAIN upd THEN upd[f] ELSE stored[f]]

PutLit_update(p) ==
    /\ pc[p] = "put_update"
    /\ LET id == req[p].bedId
       IN  lits' = IF Found(lits, id)
                     THEN [lits EXCEPT ![id] = UpdateFields(lits[id], req[p].body)]
                     ELSE lits
    /\ Reply(p, req[p], 200)
    /\ UNCHANGED <<hist, seq, now, nreq, tasks, view,
                 services, secteurs, utilisateurs, issued>>

(***************************************************************************)
(* DELETE /lits/:id                                                        *)
(***************************************************************************)
Roles == {"Admin", "User"}

\* the role check and Lit.findOneAndDelete({ID_LIT: req.params.id})
DeleteLit(p) ==
    /\ pc[p] = "delete_find"
    /\ IF req[p].role /= "Admin"
         THEN /\ Reply(p, req[p], 403)
              /\ UNCHANGED lits
         ELSE IF ~ Found(lits, req[p].bedId)
           THEN /\ Reply(p, req[p], 404)
                /\ UNCHANGED lits
           ELSE /\ lits' = [id \in DOMAIN lits \ {req[p].bedId} |-> lits[id]]
                /\ Reply(p, req[p], 200)
    /\ UNCHANGED <<hist, seq, now, nreq, tasks, view,
                 services, secteurs, utilisateurs, issued>>

(***************************************************************************)
(* DELETE /services/:id and DELETE /secteurs/:id: the cascades, one step   *)
(* per awaited database call                                               *)
(***************************************************************************)
\* Lit.deleteMany({ID_SERVICE: {$in: ids}})
DeleteManyLits(coll, ids) ==
    [id \in {i \in DOMAIN coll : coll[i].ID_SERVICE \notin ids} |-> coll[id]]

\* Utilisateur.updateMany({}, {$pull: {SERVICES_AUTORISES: {$in: ids}}})
PullServices(users, ids) == [u \in DOMAIN users |-> users[u] \ ids]

\* the role check and Service.findOneAndDelete({ID_SERVICE: req.params.id})
DeleteService_find(p) ==
    /\ pc[p] = "delsvc_find"
    /\ IF req[p].role /= "Admin"
         THEN /\ Reply(p, req[p], 403)
              /\ UNCHANGED services
         ELSE IF req[p].id \notin DOMAIN services
           THEN /\ Reply(p, req[p], 404)
                /\ UNCHANGED services
           ELSE /\ services' = [s \in DOMAIN services \ {req[p].id} |-> services[s]]
                /\ pc' = [pc EXCEPT ![p] = "delsvc_lits"]
                /\ UNCHANGED <<req, loc, resp>>
    /\ UNCHANGED <<lits, hist, seq, now, nreq, tasks, view, secteurs, utilisateurs, issued>>

\* await Lit.deleteMany({ID_SERVICE: req.params.id})
DeleteService_lits(p) ==
    /\ pc[p] = "delsvc_lits"
    /\ lits' = DeleteManyLits(lits, {req[p].id})
    /\ pc' = [pc EXCEPT ![p] = "delsvc_users"]
    /\ UNCHANGED <<hist, seq, now, req, loc, resp, nreq, tasks, view,
                   services, secteurs, utilisateurs, issued>>

\* await Utilisateur.updateMany(...) and the 200 answer
DeleteService_users(p) ==
    /\ pc[p] = "delsvc_users"
    /\ utilisateurs' = PullServices(utilisateurs, {req[p].id})
    /\ Reply(p, req[p], 200)
    /\ UNCHANGED <<lits, hist, seq, now, nreq, tasks, view, services, secteurs, issued>>

\* the role check and Secteur.findOneAndDelete({ID_SECTEUR: secteurId})
DeleteSecteur_find(p) ==
    /\ pc[p] = "delsec_find"
    /\ IF req[p].role /= "Admin"
         THEN /\ Reply(p, req[p], 403)
              /\ UNCHANGED secteurs
         ELSE IF req[p].id \notin secteurs
           THEN /\ Reply(p, req[p], 404)
                /\ UNCHANGED secteurs
           ELSE /\ secteurs' = secteurs \ {req[p].id}
                /\ pc' = [pc EXCEPT ![p] = "delsec_services"]
                /\ UNCHANGED <<req, loc, resp>>
    /\ UNCHANGED <<lits, hist, seq, now, nreq, tasks, view, services, utilisateurs, issued>>

\* const services = await Service.find({ID_SECTEUR: secteurId})
DeleteSecteur_services(p) ==
    /\ pc[p] = "delsec_services"
    /\ loc' = [loc EXCEPT ![p] =
          [k |-> "delsec",
           serviceIds |-> {s \in DOMAIN services :
                             services[s].ID_SECTEUR = req[p].id}]]
    /\ pc' = [pc EXCEPT ![p] = "delsec_lits"]
    /\ UNCHANGED <<lits, hist, seq, now, req, resp, nreq, tasks, view,
                   services, secteurs, utilisateurs, issued>>

\* await Lit.deleteMany({ID_SERVICE: {$in: serviceIds}})
DeleteSecteur_lits(p) ==
    /\ pc[p] = "delsec_lits"
    /\ lits' = DeleteManyLits(lits, loc[p].serviceIds)
    /\ pc' = [pc EXCEPT ![p] = "delsec_delete"]
    /\ UNCHANGED <<hist, seq, now, req, loc, resp, nreq, tasks, view,
                   services, secteurs, utilisateurs, issued>>

\* await Service.deleteMany({ID_SECTEUR: secteurId})
DeleteSecteur_delete(p) ==
    /\ pc[p] = "delsec_delete"
    /\ services' = [s \in {x \in DOMAIN services :
                              services[x].ID_SECTEUR /= req[p].id} |-> services[s]]
    /\ pc' = [pc EXCEPT ![p] = "delsec_users"]
    /\ UNCHANGED <<lits, hist, seq, now, req, loc, resp, nreq, tasks, view,
                   secteurs, utilisateurs, issued>>

\* await Utilisateur.updateMany(...) and the 200 answer
DeleteSecteur_users(p) ==
    /\ pc[p] = "delsec_users"
    /\ utilisateurs' = PullServices(utilisateurs, loc[p].serviceIds)
    /\ Reply(p, req[p], 200)
    /\ UNCHANGED <<lits, hist, seq, now, nreq, tasks, view, services, secteurs, issued>>

(***************************************************************************)
(* Capacities: GET /services and GET /secteurs/with-capacity, over the     *)
(* seeded services and sectors.                                            *)
(***************************************************************************)
RECURSIVE SumOver(_, _)
\* $sum / reduce of f over the set S
SumOver(S, f) ==
    IF S = {} THEN 0
    ELSE LET x == CHOOSE y \in S : TRUE
         IN  f[x] + SumOver(S \ {x}, f)

\* Lit.find({ID_SERVICE: service.ID_SERVICE})
BedsOfService(coll, s) == {id \in DOMAIN coll : coll[id].ID_SERVICE = s}

\* capacities as the Service model virtuals count them
ServiceCapacityVirtual(coll, s) ==
    LET beds == BedsOfService(coll, s)
    IN  [CAPA_ARCHI  |-> Cardinality({id \in beds : coll[id].ACTIF = TRUE}),
         CAPA_REELLE |-> Cardinality({id \in beds : coll[id].ID_STATUT = Libre})]

\* beds.filter(b => b.ACTIF === true).length and
\* beds.filter(b => b.ID_STATUT === 1 && b.ACTIF === true).length
ServiceCapacity(coll, s) ==
    LET beds == BedsOfService(coll, s)
    IN  [CAPA_ARCHI  |-> Cardinality({id \in beds : coll[id].ACTIF = TRUE}),
         CAPA_REELLE |-> Cardinality({id \in beds :
                            coll[id].ID_STATUT = Libre /\ coll[id].ACTIF = TRUE})]

\* sector capacities as the Secteur model virtuals count them
SecteurRowsVirtual(coll) ==
    [k \in Secteurs |->
       LET ids == {s \in Services : ServiceDocs[s].ID_SECTEUR = k}
           beds == {id \in DOMAIN coll : coll[id].ID_SERVICE \in ids}
       IN  [totalCapacity |-> Cardinality(beds),
            availableBeds |-> Cardinality({id \in beds : coll[id].ID_STATUT = Libre})]]

\* the aggregation: $lookup services, $unwind (a sector without service
\* keeps one row, whose missing services.ID_SERVICE is written ""),
\* $lookup lits, $addFields with the $filter sizes, $group with $sum
SecteurRows(coll) ==
    [k \in Secteurs |->
       LET joined == {s \in Services : ServiceDocs[s].ID_SECTEUR = k}
           unwound == IF joined = {} THEN {""} ELSE joined
           total == [s \in unwound |->
                       Cardinality({id \in BedsOfService(coll, s) :
                                       coll[id].ACTIF = TRUE})]
           avail == [s \in unwound |->
                       Cardinality({id \in BedsOfService(coll, s) :
                          coll[id].ID_STATUT = Libre /\ coll[id].ACTIF = TRUE})]
       IN  [totalCapacity |-> SumOver(unwound, total),
            availableBeds |-> SumOver(unwound, avail)]]

\* GET /services?id=s
GetService ==
    /\ view = NoView
    /\ \E s \in Services :
         view' = [q |-> "service", id |-> s, cap |-> ServiceCapacity(lits, s)]
    /\ UNCHANGED <<lits, hist, seq, now, pc, req, loc, resp, nreq, tasks,
                 services, secteurs, utilisateurs, issued>>

\* GET /secteurs/with-capacity
GetSecteursWithCapacity ==
    /\ view = NoView
    /\ view' = [q |-> "secteurs", rows |-> SecteurRows(lits)]
    /\ UNCHANGED <<lits, hist, seq, now, pc, req, loc, resp, nreq, tasks,
                 services, secteurs, utilisateurs, issued>>

(***************************************************************************)
(* Read queries of the lits and secteurs routers.  The caller is the       *)
(* payload of the token: its role and its SERVICES_AUTORISES.  A filter    *)
(* that is absent from the query string is written Null (status) or ""     *)
(* (serviceId).  page and limit are not modelled: a result is the whole    *)
(* matching set.  A read is answered in one step, and its answer stays in  *)
(* view until the next request arrives.                                    *)
(***************************************************************************)
CleaningRoles == {"Agent d'entretien", "Responsabled'entretien"}
TechRoles     == {"Agent technique", "Responsable technique"}

CallerRoles == {"Admin", "User", "Agent d'entretien", "Agent technique"}
Callers == [role : CallerRoles, services : {{}, {"A"}}]

StatusFilters  == {Null, Libre, ANettoyer}
ServiceFilters == {"", "A", "B"}

\* GET /lits: Lit.find({})
LitsMatch(coll) == DOMAIN coll

\* GET /lits/all: matchConditions.ID_STATUT
AllStatusCondition(role, status) ==
    IF role \in CleaningRoles THEN ANettoyer
    ELSE IF role \in TechRoles THEN EnMaintenance
    ELSE status

\* GET /lits/all: $match matchConditions
LitsAllMatch(coll, role, status) ==
    LET st == AllStatusCondition(role, status)
    IN  {id \in DOMAIN coll : st = Null \/ coll[id].ID_STATUT = st}

\* GET /lits/service/:serviceId: $match matchConditions
LitsByServiceMatch(coll, serviceId, status) ==
    {id \in DOMAIN coll :
        /\ coll[id].ID_SERVICE = serviceId
        /\ coll[id].ACTIF = TRUE
        /\ status = Null \/ coll[id].ID_STATUT = status}

\* GET /secteurs: baseFilter
SecteursMatch(caller) ==
    IF caller.role /= "Admin"
      THEN IF caller.services = {} THEN {}
           ELSE {k \in Secteurs :
                   \E s \in caller.services \cap Services : ServiceDocs[s].ID_SECTEUR = k}
      ELSE Secteurs

\* a history query in which an explicit status filter replaces the role's
\* $or condition
HistoryQueryStatusFirst(caller, serviceId, status) ==
    [empty |-> caller.role \in {"User", "Viewer"} /\ caller.services = {},
     ID_SERVICE |-> IF caller.role \in {"User", "Viewer"} THEN caller.services
                    ELSE IF serviceId /= "" THEN {serviceId} ELSE Services,
     ID_STATUT |-> status,
     or |-> IF status /= Null THEN Null
            ELSE IF caller.role \in CleaningRoles THEN ANettoyer
            ELSE IF caller.role \in TechRoles THEN EnMaintenance
            ELSE Null]

\* GET /lits/history: the query object.  ID_SERVICE is the set of services
\* the condition admits, `or` the status of {$or: [{ID_STATUT}, 
\* {STATUT_PRECEDENT}]}, `empty` the early return of an empty result
HistoryQuery(caller, serviceId, status) ==
    [empty |-> caller.role \in {"User", "Viewer"} /\ caller.services = {},
     ID_SERVICE |-> IF caller.role \in {"User", "Viewer"} THEN caller.services
                    ELSE IF serviceId /= "" THEN {serviceId} ELSE Services,
     ID_STATUT |-> status,
     or |-> IF caller.role \in CleaningRoles THEN ANettoyer
            ELSE IF caller.role \in TechRoles THEN EnMaintenance
            ELSE Null]

\* HistoriqueStatut.aggregate([{$match: query}, ...]): the ID_HIST returned
HistoryMatch(ledger, query) ==
    IF query.empty THEN {}
    ELSE {ledger[i].ID_HIST : i \in
            {j \in DOMAIN ledger :
                /\ ledger[j].ID_SERVICE \in query.ID_SERVICE
                /\ query.ID_STATUT = Null \/ ledger[j].ID_STATUT = query.ID_STATUT
                /\ \/ query.or = Null
                   \/ ledger[j].ID_STATUT = query.or
                   \/ ledger[j].STATUT_PRECEDENT = query.or}}

\* a response: the query, the caller, the filters and the returned set
Answer(q, caller, serviceId, status, beds, entries, rows) ==
    [q |-> q, caller |-> caller, serviceId |-> serviceId, status |-> status,
     beds |-> beds, entries |-> entries, secteurs |-> rows]

GetLits ==
    /\ view = NoView
    /\ \E c \in Callers :
         view' = Answer("lits", c, "", Null, LitsMatch(lits), {}, {})
    /\ UNCHANGED <<lits, hist, seq, now, pc, req, loc, resp, nreq, tasks,
                 services, secteurs, utilisateurs, issued>>

GetLitsAll ==
    /\ view = NoView
    /\ \E c \in Callers, st \in StatusFilters :
         view' = Answer("all", c, "", st, LitsAllMatch(lits, c.role, st), {}, {})
    /\ UNCHANGED <<lits, hist, seq, now, pc, req, loc, resp, nreq, tasks,
                 services, secteurs, utilisateurs, issued>>

GetLitsByService ==
    /\ view = NoView
    /\ \E c \in Callers, sv \in Services, st \in StatusFilters :
         view' = Answer("byService", c, sv, st, LitsByServiceMatch(lits, sv, st), {}, {})
    /\ UNCHANGED <<lits, hist, seq, now, pc, req, loc, resp, nreq, tasks,
                 services, secteurs, utilisateurs, issued>>

GetSecteurs ==
    /\ view = NoView
    /\ \E c \in Callers :
         view' = Answer("secteursList", c, "", Null, {}, {}, SecteursMatch(c))
    /\ UNCHANGED <<lits, hist, seq, now, pc, req, loc, resp, nreq, tasks,
                 services, secteurs, utilisateurs, issued>>

GetHistory ==
    /\ view = NoView
    /\ \E c \in Callers, sv \in ServiceFilters, st \in StatusFilters :
         view' = Answer("history", c, sv, st, {},
                        HistoryMatch(hist, HistoryQuery(c, sv, st)), {})
    /\ UNCHANGED <<lits, hist, seq, now, pc, req, loc, resp, nreq, tasks,
                 services, secteurs, utilisateurs, issued>>

(***************************************************************************)
(* PATCH /tasks/:id                                                        *)
(***************************************************************************)
\* taskSchema: a task document with the schema defaults; an absent bedFor
\* is written ""
NewTask(bed, service, type, t) ==
    [bedId |-> bed, serviceName |-> service, taskType |-> type,
     creationDate |-> t, taskCategory |-> Null,
     taskCompletionDateTime |-> Null, bedFor |-> "",
     isUrgent |-> FALSE, isDone |-> FALSE]

TaskIds == {"t1", "t2"}

\* the tasks collection holding the open cleaning task of one bed
SeededTasks == "t1" :> NewTask(<<"A", 1>>, "A", ANettoyer, NowInit)

\* bodies of PATCH /tasks/:id: the fields that are not undefined
TaskBodies ==
    {[isDone |-> TRUE],
     [isUrgent |-> TRUE, bedFor |-> "x"],
     [isDone |-> TRUE, taskCompletionDateTime |-> CleanT, taskCategory |-> SubStd]}

\* Task.findById(id)
PatchTask_find(p) ==
    /\ pc[p] = "task_find"
    /\ IF req[p].taskId \notin DOMAIN tasks
         THEN Reply(p, req[p], 404)
         ELSE /\ pc' = [pc EXCEPT ![p] = "task_update"]
              /\ UNCHANGED <<req, loc, resp>>
    /\ UNCHANGED <<lits, hist, seq, now, nreq, tasks, view,
                 services, secteurs, utilisateurs, issued>>

\* Task.findByIdAndUpdate(id, updateData, {new, runValidators})
PatchTask_update(p) ==
    /\ pc[p] = "task_update"
    /\ LET id == req[p].taskId
       IN  tasks' = IF id \in DOMAIN tasks
                      THEN [tasks EXCEPT ![id] = UpdateFields(tasks[id], req[p].body)]
                      ELSE tasks
    /\ Reply(p, req[p], 200)
    /\ UNCHANGED <<lits, hist, seq, now, nreq, view,
                 services, secteurs, utilisateurs, issued>>

(***************************************************************************)
(* Arrival of a request at the router.  The server clock (new Date(),      *)
(* Date.now) has advanced since the previous arrival, and the answer of    *)
(* the last read query has been delivered.                                 *)
(***************************************************************************)
CreateRequests == {[op |-> "create", body |-> b] : b \in CreateBodies}

PatchRequests ==
    {[op |-> "patch", bedId |-> id, body |-> b] : id \in BedIds, b \in PatchBodies}

PutRequests ==
    {[op |-> "put", bedId |-> id, body |-> b] : id \in BedIds, b \in PutBodies}

FirstStep(op) ==
    IF op = "create" THEN "create_find"
    ELSE IF op = "patch" THEN "patch_find"
    ELSE IF op = "put" THEN "put_find"
    ELSE IF op = "delete" THEN "delete_find"
    ELSE IF op = "deleteService" THEN "delsvc_find"
    ELSE IF op = "deleteSecteur" THEN "delsec_find" ELSE "task_find"

Receive(p, r) ==
    /\ pc[p] = "idle"
    /\ nreq < MaxReq
    /\ r.op = "create" => Cardinality(DOMAIN lits) < MaxBeds
    /\ nreq' = nreq + 1
    /\ now' = now + 1
    /\ req' = [req EXCEPT ![p] = r]
    /\ pc' = [pc EXCEPT ![p] = FirstStep(r.op)]
    /\ resp' = [resp EXCEPT ![p] = NoResp]
    /\ view' = NoView
    /\ UNCHANGED <<lits, hist, seq, loc, tasks,
                 services, secteurs, utilisateurs, issued>>

ReceiveCreate(p) == \E r \in CreateRequests : Receive(p, r)
ReceivePatch(p)  == \E r \in PatchRequests : Receive(p, r)
ReceivePut(p)    == \E r \in PutRequests : Receive(p, r)

TaskRequests ==
    {[op |-> "task", taskId |-> id, body |-> b] : id \in TaskIds, b \in TaskBodies}

\* transitions to Free and to the care statuses, with the whole payload
CarePatchRequests ==
    {r \in PatchRequests :
        /\ r.body.ID_STATUT \in {JNum(Libre), JNum(ANettoyer), JNum(EnMaintenance)}
        /\ r.body.MAJ_STATUT = CallerTime}

DeleteRequests ==
    {[op |-> "delete", bedId |-> id, role |-> ro] : id \in BedIds, ro \in Roles}

DeleteServiceRequests ==
    {[op |-> "deleteService", id |-> s, role |-> ro] : s \in Services, ro \in Roles}

DeleteSecteurRequests ==
    {[op |-> "deleteSecteur", id |-> k, role |-> ro] : k \in Secteurs, ro \in Roles}

ReceiveDelete(p) == \E r \in DeleteRequests : Receive(p, r)
ReceiveDeleteService(p) == \E r \in DeleteServiceRequests : Receive(p, r)
ReceiveDeleteSecteur(p) == \E r \in DeleteSecteurRequests : Receive(p, r)
ReceiveCare(p) == \E r \in CarePatchRequests : Receive(p, r)
ReceiveTask(p) == \E r \in TaskRequests : Receive(p, r)

(***************************************************************************)
(* Specifications                                                          *)
(***************************************************************************)
Step(p) ==
    \/ ReceiveCreate(p)
    \/ ReceivePatch(p)
    \/ ReceivePut(p)
    \/ CreateLit_find(p)
    \/ CreateLit_save(p)
    \/ PatchStatus_find(p)
    \/ PatchStatus_save(p)
    \/ PatchStatus_counter(p)
    \/ PatchStatus_history(p)
    \/ PatchStatus_reply(p)
    \/ PutLit_find(p)
    \/ PutLit_update(p)

Next == \E p \in Procs : Step(p)

Spec == Init /\ [][Next]_vars

\* Bed creations and status transitions only
StepTrans(p) ==
    \/ ReceiveCreate(p)
    \/ ReceivePatch(p)
    \/ CreateLit_find(p)
    \/ CreateLit_save(p)
    \/ PatchStatus_find(p)
    \/ PatchStatus_save(p)
    \/ PatchStatus_counter(p)
    \/ PatchStatus_history(p)
    \/ PatchStatus_reply(p)

NextTrans == \E p \in Procs : StepTrans(p)

SpecTrans == Init /\ [][NextTrans]_vars

\* Bed creations, care transitions and task updates, the tasks collection
\* holding a task
InitTasks ==
    /\ lits = <<>>
    /\ hist = <<>>
    /\ seq = 0
    /\ now = NowInit
    /\ pc = [p \in Procs |-> "idle"]
    /\ req = [p \in Procs |-> NoReq]
    /\ loc = [p \in Procs |-> NoLoc]
    /\ resp = [p \in Procs |-> NoResp]
    /\ nreq = 0
    /\ tasks = SeededTasks
    /\ view = NoView
    /\ services = ServiceDocs
    /\ secteurs = Secteurs
    /\ utilisateurs = UtilisateurDocs
    /\ issued = {}

StepTasks(p) ==
    \/ ReceiveCreate(p)
    \/ ReceiveCare(p)
    \/ ReceiveTask(p)
    \/ CreateLit_find(p)
    \/ CreateLit_save(p)
    \/ PatchStatus_find(p)
    \/ PatchStatus_save(p)
    \/ PatchStatus_counter(p)
    \/ PatchStatus_history(p)
    \/ PatchStatus_reply(p)
    \/ PatchTask_find(p)
    \/ PatchTask_update(p)

NextTasks == \E p \in Procs : StepTasks(p)

SpecTasks == InitTasks /\ [][NextTasks]_vars

\* Capacity reads over the bed store as creations, transitions, updates and
\* deletions served one after the other leave it
StepStore(p) ==
    \/ ReceiveCreate(p)
    \/ ReceiveCare(p)
    \/ ReceivePut(p)
    \/ ReceiveDelete(p)
    \/ CreateLit_find(p)
    \/ CreateLit_save(p)
    \/ PatchStatus_find(p)
    \/ PatchStatus_save(p)
    \/ PatchStatus_counter(p)
    \/ PatchStatus_history(p)
    \/ PatchStatus_reply(p)
    \/ PutLit_find(p)
    \/ PutLit_update(p)
    \/ DeleteLit(p)

NextCapa ==
    \/ StepStore("r1")
    \/ GetService
    \/ GetSecteursWithCapacity

SpecCapa == Init /\ [][NextCapa]_vars

\* Bed, sector and history reads over the store as requests served one
\* after the other leave it
NextReads ==
    \/ StepStore("r1")
    \/ GetLits
    \/ GetLitsAll
    \/ GetLitsByService
    \/ GetSecteurs
    \/ GetHistory

SpecReads == Init /\ [][NextReads]_vars

\* Bed creations and care transitions, served concurrently
StepCare(p) ==
    \/ ReceiveCreate(p)
    \/ ReceiveCare(p)
    \/ CreateLit_find(p)
    \/ CreateLit_save(p)
    \/ PatchStatus_find(p)
    \/ PatchStatus_save(p)
    \/ PatchStatus_counter(p)
    \/ PatchStatus_history(p)
    \/ PatchStatus_reply(p)

NextCare == \E p \in Procs : StepCare(p)

SpecCare == Init /\ [][NextCare]_vars

\* Creations, transitions, updates and the deletions of beds, services and
\* sectors with their cascades, served one after the other
StepCascade(p) ==
    \/ ReceiveDeleteService(p)
    \/ ReceiveDeleteSecteur(p)
    \/ DeleteService_find(p)
    \/ DeleteService_lits(p)
    \/ DeleteService_users(p)
    \/ DeleteSecteur_find(p)
    \/ DeleteSecteur_services(p)
    \/ DeleteSecteur_lits(p)
    \/ DeleteSecteur_delete(p)
    \/ DeleteSecteur_users(p)

NextOrg == StepStore("r1") \/ StepCascade("r1")

SpecOrg == Init /\ [][NextOrg]_vars

\* History reads over any ledger of at most MaxLedger entries
LedgerStatuses == {Libre, ANettoyer, EnMaintenance}

\* the entry createHistory writes for a transition of the first bed of a
\* service
LedgerEntry(i, service, to, from) ==
    [ID_HIST |-> i,
     ID_LIT |-> <<service, 1>>,
     ID_SERVICE |-> service,
     ID_STATUT |-> to,
     DATE_HEURE |-> NowInit + i,
     AUTEUR |-> "alice",
     STATUT_PRECEDENT |-> from]

InitHist ==
    /\ \E n \in 0..MaxLedger :
         \E f \in [1..n -> Services \X LedgerStatuses \X LedgerStatuses] :
            /\ hist = [i \in 1..n |-> LedgerEntry(i, f[i][1], f[i][2], f[i][3])]
            /\ seq = n
    /\ lits = <<>>
    /\ now = NowInit
    /\ pc = [p \in Procs |-> "idle"]
    /\ req = [p \in Procs |-> NoReq]
    /\ loc = [p \in Procs |-> NoLoc]
    /\ resp = [p \in Procs |-> NoResp]
    /\ nreq = 0
    /\ tasks = <<>>
    /\ view = NoView
    /\ services = ServiceDocs
    /\ secteurs = Secteurs
    /\ utilisateurs = UtilisateurDocs
    /\ issued = {}

NextHist == GetHistory

SpecHist == InitHist /\ [][NextHist]_vars


(***************************************************************************)
(* Properties                                                              *)
(***************************************************************************)
\* request p takes a step
Acts(p) == pc'[p] /= pc[p]

\* lit.save() of request p wrote the bed
Saved(p) == pc[p] = "patch_save" /\ pc'[p] = "patch_counter"

\* the status the request asks for
Target(p) == CastNumber(req[p].body.ID_STATUT)

\* request p reports the success of its transition
Succeeds(p) == pc[p] = "patch_reply" /\ Acts(p)

\* C1: when a status transition on a bed created Free reports success, the
\* bed's ACTIF flag is true if and only if its ID_STATUT is 1 (Free).
C1_ActifIffLibre ==
    [][\A p \in Procs :
         Succeeds(p) =>
            LET b == lits'[req[p].bedId]
            IN  b.ACTIF <=> (b.ID_STATUT = Libre)
      ]_vars

\* what one transition request alone makes of the status fields of a bed
StatusFields(b) ==
    <<b.ID_STATUT, b.SUB_ID_STATUT, b.CLEANING_DATE, b.MAINTENANCE_DATE>>

\* C2: when transitions on one bed run concurrently, the persisted record
\* (ID_STATUT, SUB_ID_STATUT, CLEANING_DATE, MAINTENANCE_DATE) is always
\* the record that one request alone would have produced: a save either
\* leaves the record of the request that wrote before it, or replaces it
\* by the record of the saving request; and a transition that reports
\* success has its history entry.
C2_NoLostUpdate ==
    [][\A p \in Procs :
         /\ Saved(p) =>
              \/ StatusFields(lits'[req[p].bedId])
                   = StatusFields(PatchAssign(lits[req[p].bedId], req[p].body))
              \/ StatusFields(lits'[req[p].bedId]) = StatusFields(lits[req[p].bedId])
         /\ Succeeds(p) =>
              \E i \in DOMAIN hist :
                 hist[i].ID_HIST = loc[p].histId /\ hist[i].ID_LIT = req[p].bedId
      ]_vars

\* the ids allocated to requests that have not written their entry yet
PendingIds(q) ==
    IF pc[q] = "patch_hist" THEN {loc[q].histId} ELSE {}

\* C3: under any interleaving of transitions, an id allocated from the
\* counter is strictly greater than every id allocated before it (stored in
\* the ledger or held by a request), and no two ledger entries share an
\* ID_HIST.
C3_HistIdsUniqueIncreasing ==
    [][/\ \A p \in Procs :
            (pc[p] = "patch_counter" /\ Acts(p)) =>
               /\ \A i \in DOMAIN hist : hist[i].ID_HIST < loc'[p].histId
               /\ \A q \in Procs : \A n \in PendingIds(q) : n < loc'[p].histId
       /\ \A i, j \in DOMAIN hist' :
            i /= j => hist'[i].ID_HIST /= hist'[j].ID_HIST
      ]_vars

\* C3 witness: two requests hold freshly allocated ids at the same time
C3_Witness ==
    /\ pc["r1"] = "patch_hist"
    /\ pc["r2"] = "patch_hist"
    /\ loc["r1"].histId < loc["r2"].histId

\* C4: after any sequence of creations, transitions and PUT updates, at most
\* one of CLEANING_DATE, MAINTENANCE_DATE, RESERVED_DATE is non-null for a
\* bed, and a non-null one matches the bed's status (3, 4, 6).
C4_OneScheduledDate ==
    \A id \in DOMAIN lits :
       LET b == lits[id]
       IN  /\ b.CLEANING_DATE /= Null => b.ID_STATUT = ANettoyer
           /\ b.MAINTENANCE_DATE /= Null => b.ID_STATUT = EnMaintenance
           /\ b.RESERVED_DATE /= Null => b.ID_STATUT = Reserve
           /\ Cardinality({f \in {"CLEANING_DATE", "MAINTENANCE_DATE", "RESERVED_DATE"} :
                              b[f] /= Null}) <= 1

\* C5: a successful transition to status T leaves the bed with the
\* scheduled timestamp of T equal to the value supplied for T (3: cleaning,
\* 4: maintenance, 6: reservation) and the other scheduled timestamps null;
\* for any other T all three are null.
C5_ScheduledTimestampOfTarget ==
    [][\A p \in Procs :
         Succeeds(p) =>
            LET b == lits'[req[p].bedId]
                body == req[p].body
            IN  /\ b.CLEANING_DATE =
                     (IF Target(p) = ANettoyer THEN body.CLEANING_TIME ELSE Null)
                /\ b.MAINTENANCE_DATE =
                     (IF Target(p) = EnMaintenance THEN body.MAINTENANCE_TIME ELSE Null)
                /\ b.RESERVED_DATE =
                     (IF Target(p) = Reserve THEN body.RESERVED_TIME ELSE Null)
      ]_vars

\* C6: after a successful transition the bed's SUB_ID_STATUT is non-null
\* only if the new status is To-Clean (3); a transition to another status
\* leaves it null whatever sub-status the request carried.
C6_SubStatusOnlyToClean ==
    [][\A p \in Procs :
         Succeeds(p) =>
            LET b == lits'[req[p].bedId]
            IN  /\ b.SUB_ID_STATUT /= Null => b.ID_STATUT = ANettoyer
                /\ Target(p) /= ANettoyer => b.SUB_ID_STATUT = Null
      ]_vars

\* C7: a transition that reports success has appended exactly one history
\* entry, for its bed, with STATUT_PRECEDENT the status read before the
\* change, ID_STATUT the requested target, ID_SERVICE the bed's service and
\* AUTEUR the acting user; no other step of the transition touches the
\* ledger, and the append leaves the older entries as they were.
C7_OneHistoryEntryPerSuccess ==
    [][\A p \in Procs :
         (Acts(p) /\ pc[p] /= "idle" /\ req[p].op = "patch") =>
            /\ pc'[p] = "patch_save" =>
                 loc'[p].previousStatus = lits[req[p].bedId].ID_STATUT
            /\ IF pc'[p] = "patch_reply"
                 THEN /\ Len(hist') = Len(hist) + 1
                      /\ SubSeq(hist', 1, Len(hist)) = hist
                      /\ LET e == hist'[Len(hist')]
                         IN  /\ e.ID_LIT = req[p].bedId
                             /\ e.STATUT_PRECEDENT = loc[p].previousStatus
                             /\ e.ID_STATUT = Target(p)
                             /\ e.ID_SERVICE = lits[req[p].bedId].ID_SERVICE
                             /\ e.AUTEUR = UserNOM(p)
                 ELSE hist' = hist
            /\ (pc'[p] = "idle" /\ resp'[p].code = 200) => pc[p] = "patch_reply"
      ]_vars

\* C7 witness: a transition away from Free has reported success and its
\* entry is in the ledger
C7_Witness ==
    \E p \in Procs :
       /\ resp[p] = [code |-> 200, op |-> "patch"]
       /\ \E i \in DOMAIN hist :
             /\ hist[i].AUTEUR = UserNOM(p)
             /\ hist[i].STATUT_PRECEDENT = Libre
             /\ hist[i].ID_STATUT = ANettoyer

\* C8: a transition whose target status is not in the catalog (1..8) is
\* rejected with an error and leaves the bed, the ledger and the id counter
\* unchanged.
C8_UnknownStatusRejected ==
    [][\A p \in Procs :
         (Acts(p) /\ pc[p] /= "idle" /\ req[p].op = "patch"
            /\ Target(p) \notin StatusCatalog) =>
            /\ UNCHANGED <<lits, hist, seq>>
            /\ pc'[p] = "idle" => resp'[p].code >= 400
      ]_vars

\* C9: a transition for a bed id that does not exist answers 404 and
\* changes nothing: no bed created or modified, no history entry, counter
\* not incremented.
C9_MissingBedNotFound ==
    [][\A p \in Procs :
         (Acts(p) /\ pc[p] = "patch_find" /\ req[p].bedId \notin DOMAIN lits) =>
            /\ pc'[p] = "idle"
            /\ resp'[p] = [code |-> 404, op |-> "patch"]
            /\ UNCHANGED <<lits, hist, seq>>
      ]_vars

\* C9 witness: a transition on a missing bed was answered 404 while a bed
\* exists
C9_Witness ==
    /\ DOMAIN lits /= {}
    /\ \E p \in Procs : resp[p] = [code |-> 404, op |-> "patch"]

\* C10: a transition never completes with the bed's status changed, no
\* history entry written for the change and no further attempt to write it
\* (a failed append is retried).
C10_FailedAppendRetried ==
    [][\A p \in Procs :
         (pc[p] = "patch_hist" /\ pc'[p] = "idle") =>
            loc[p].lit.ID_STATUT = loc[p].previousStatus
      ]_vars

\* the care statuses, whose transitions call for a task
CareStatuses == {ANettoyer, EnMaintenance}

\* C11: a transition into To-Clean (3) or Maintenance (4) that reports
\* success has created a task for its bed with taskType the target status,
\* isUrgent false and isDone false; a step of a transition adds at most one
\* task, and none when the target is another status.
C11_TaskPerCareTransition ==
    [][\A p \in Procs :
         (Acts(p) /\ pc[p] /= "idle" /\ req[p].op = "patch") =>
            /\ Cardinality(DOMAIN tasks' \ DOMAIN tasks) <= 1
            /\ Target(p) \notin CareStatuses => DOMAIN tasks' = DOMAIN tasks
            /\ (Succeeds(p) /\ Target(p) \in CareStatuses) =>
                 \E t \in DOMAIN tasks' :
                    /\ tasks'[t].bedId = req[p].bedId
                    /\ tasks'[t].taskType = Target(p)
                    /\ tasks'[t].isUrgent = FALSE
                    /\ tasks'[t].isDone = FALSE
      ]_vars

\* the task fields a caller sets
TaskState(t) ==
    <<t.isDone, t.isUrgent, t.taskCategory, t.taskCompletionDateTime, t.bedFor>>

\* the bed fields a transition sets
BedState(b) ==
    <<b.ID_STATUT, b.ACTIF, b.CLEANING_DATE, b.MAINTENANCE_DATE, b.RESERVED_DATE>>

\* C12: a step of a status transition leaves every existing task (isDone,
\* isUrgent, taskCategory, taskCompletionDateTime, bedFor) unchanged, and a
\* step of a task update (PATCH /tasks/:id) leaves every bed's status, ACTIF
\* flag and scheduled timestamps unchanged and appends no history entry.
C12_TasksAndBedsIndependent ==
    [][\A p \in Procs :
         (Acts(p) /\ pc[p] /= "idle") =>
            /\ req[p].op = "patch" =>
                 \A t \in DOMAIN tasks :
                    t \in DOMAIN tasks' /\ TaskState(tasks'[t]) = TaskState(tasks[t])
            /\ req[p].op = "task" =>
                 /\ DOMAIN lits' = DOMAIN lits
                 /\ \A id \in DOMAIN lits : BedState(lits'[id]) = BedState(lits[id])
                 /\ hist' = hist /\ seq' = seq
      ]_vars

\* C12 witness: the task of a bed was marked done after the bed went to
\* To-Clean, and the bed is still To-Clean with its one history entry
C12_Witness ==
    /\ \E p \in Procs : resp[p] = [code |-> 200, op |-> "task"]
    /\ tasks["t1"].isDone
    /\ <<"A", 1>> \in DOMAIN lits
    /\ lits[<<"A", 1>>].ID_STATUT = ANettoyer
    /\ Len(hist) = 1

\* a capacity read has just answered
ServiceRead == view' /= view /\ view'.q = "service"
SecteurRead == view' /= view /\ view'.q = "secteurs"

\* C13: the available capacity (CAPA_REELLE) reported for a service equals
\* the number of beds of that service whose ID_STATUT is 1 (Free) in the
\* store the read was served from.
C13_AvailableIsFreeCount ==
    [][ServiceRead =>
         view'.cap.CAPA_REELLE =
            Cardinality({id \in DOMAIN lits :
                            /\ lits[id].ID_SERVICE = view'.id
                            /\ lits[id].ID_STATUT = Libre})
      ]_vars

\* C14: the total capacity (CAPA_ARCHI) reported for a service equals the
\* number of beds that belong to the service, whatever their status or
\* ACTIF flag.
C14_TotalIsBedCount ==
    [][ServiceRead =>
         view'.cap.CAPA_ARCHI =
            Cardinality({id \in DOMAIN lits : lits[id].ID_SERVICE = view'.id})
      ]_vars

\* the services of a sector
ServicesOfSecteur(k) == {s \in Services : ServiceDocs[s].ID_SECTEUR = k}

\* C15: the total capacity and available beds reported for a sector by
\* GET /secteurs/with-capacity equal the sums, over the services of the
\* sector, of the total and available capacities GET /services reports for
\* them from the same store; a sector with no service reports 0 for both.
C15_SecteurIsSumOfServices ==
    [][SecteurRead =>
         \A k \in Secteurs :
            LET svcs == ServicesOfSecteur(k)
                row == view'.rows[k]
            IN  /\ row.totalCapacity =
                     SumOver(svcs, [s \in svcs |-> ServiceCapacity(lits, s).CAPA_ARCHI])
                /\ row.availableBeds =
                     SumOver(svcs, [s \in svcs |-> ServiceCapacity(lits, s).CAPA_REELLE])
                /\ svcs = {} => (row.totalCapacity = 0 /\ row.availableBeds = 0)
      ]_vars

\* C15 witness: the sector holding both services reports two beds, one of
\* them available, with a bed in each service, and the empty sector 0
C15_Witness ==
    /\ view.q = "secteurs"
    /\ view.rows[1] = [totalCapacity |-> 2, availableBeds |-> 1]
    /\ view.rows[2] = [totalCapacity |-> 0, availableBeds |-> 0]
    /\ \A s \in Services : BedsOfService(lits, s) /= {}

\* C16: in any one read of the store, for every service and every sector,
\* 0 <= available capacity <= total capacity.
C16_AvailableWithinTotal ==
    [][/\ ServiceRead =>
            /\ 0 <= view'.cap.CAPA_REELLE
            /\ view'.cap.CAPA_REELLE <= view'.cap.CAPA_ARCHI
       /\ SecteurRead =>
            \A k \in Secteurs :
               /\ 0 <= view'.rows[k].availableBeds
               /\ view'.rows[k].availableBeds <= view'.rows[k].totalCapacity
      ]_vars

\* C16 witness: a service was read with two beds, one of them available
C16_Witness ==
    /\ view.q = "service"
    /\ view.cap = [CAPA_ARCHI |-> 2, CAPA_REELLE |-> 1]

\* a bed listing, a sector listing or a history query has just answered
BedRead     == view' /= view /\ view'.q \in {"lits", "all", "byService"}
HistoryRead == view' /= view /\ view'.q = "history"
ListRead ==
    view' /= view /\ view'.q \in {"lits", "all", "byService", "secteursList", "history"}

\* C17: for a caller of a non-administrative role, scoped to its authorized
\* services, no bed listing (GET /lits, GET /lits/all,
\* GET /lits/service/:serviceId) returns a bed whose ID_SERVICE is not
\* authorized, whatever filters are passed.
C17_BedsWithinAuthorizedServices ==
    [][(BedRead /\ view'.caller.role /= "Admin") =>
         \A id \in view'.beds : lits[id].ID_SERVICE \in view'.caller.services
      ]_vars

\* C18: for a service-scoped caller with no authorized service, every bed,
\* sector and history query returns an empty result.
C18_EmptyScopeEmptyResult ==
    [][(ListRead /\ view'.caller.role /= "Admin" /\ view'.caller.services = {}) =>
         /\ view'.beds = {}
         /\ view'.secteurs = {}
         /\ view'.entries = {}
      ]_vars

\* the entry of the ledger with this ID_HIST
EntryOf(ledger, id) ==
    ledger[CHOOSE i \in DOMAIN ledger : ledger[i].ID_HIST = id]

RoleAllowsBed(role, b) ==
    /\ role \in CleaningRoles => b.ID_STATUT = ANettoyer
    /\ role \in TechRoles => b.ID_STATUT = EnMaintenance

\* the role predicate on history entries
RoleAllowsEntry(caller, e) ==
    /\ caller.role \in {"User", "Viewer"} => e.ID_SERVICE \in caller.services
    /\ caller.role \in CleaningRoles =>
         (e.ID_STATUT = ANettoyer \/ e.STATUT_PRECEDENT = ANettoyer)
    /\ caller.role \in TechRoles =>
         (e.ID_STATUT = EnMaintenance \/ e.STATUT_PRECEDENT = EnMaintenance)

\* C20: the set returned by GET /lits/all and by GET /lits/history is the
\* intersection of the records the caller's role predicate allows and the
\* records matching the explicit filters (status on /all; serviceId and
\* status on /history).
C20_RoleAndFiltersIntersect ==
    [][/\ (view' /= view /\ view'.q = "all") =>
            view'.beds =
               {id \in DOMAIN lits :
                   /\ RoleAllowsBed(view'.caller.role, lits[id])
                   /\ view'.status = Null \/ lits[id].ID_STATUT = view'.status}
       /\ HistoryRead =>
            view'.entries =
               {hist[i].ID_HIST : i \in
                  {j \in DOMAIN hist :
                      /\ RoleAllowsEntry(view'.caller, hist[j])
                      /\ view'.serviceId = "" \/ hist[j].ID_SERVICE = view'.serviceId
                      /\ view'.status = Null \/ hist[j].ID_STATUT = view'.status}}
      ]_vars

\* C21: the id counter of the ledger never decreases, and an id that was
\* allocated is never allocated again, also when the append it was allocated
\* for failed: every allocation exceeds the counter, and the counter bounds
\* every id that is stored in the ledger or held by a request.
C21_CounterNeverReused ==
    [][/\ seq' >= seq
       /\ \A p \in Procs :
            (pc[p] = "patch_counter" /\ Acts(p)) => loc'[p].histId > seq
       /\ \A i \in DOMAIN hist' : hist'[i].ID_HIST <= seq'
       /\ \A q \in Procs :
            pc'[q] = "patch_hist" => loc'[q].histId <= seq'
      ]_vars

\* C21 witness: the append of id 1 failed and the ledger goes on with id 2
C21_Witness ==
    /\ seq = 2
    /\ \E i \in DOMAIN hist : hist[i].ID_HIST = 2
    /\ \A i \in DOMAIN hist : hist[i].ID_HIST /= 1

\* C22: the ledger is append-only under every operation (transitions, bed
\* updates, bed deletions, service and sector deletions with their
\* cascades): a step never shortens it and never changes an entry it holds.
C22_LedgerAppendOnly ==
    [][/\ Len(hist') >= Len(hist)
       /\ \A i \in DOMAIN hist : hist'[i] = hist[i]
      ]_vars

\* C22 witness: a service deletion has cascaded over a bed that the ledger
\* has an entry for
C22_Witness ==
    /\ resp["r1"] = [code |-> 200, op |-> "deleteService"]
    /\ hist /= <<>>
    /\ hist[1].ID_LIT \notin DOMAIN lits
    /\ hist[1].ID_SERVICE \notin DOMAIN services

\* the ledger entry of bed id with the greatest ID_HIST
LastEntryOf(id) ==
    LET es == {i \in DOMAIN hist : hist[i].ID_LIT = id}
    IN  hist[CHOOSE i \in es : \A j \in es : hist[j].ID_HIST <= hist[i].ID_HIST]

\* C23: whenever no request is being served, every bed that has a ledger
\* entry has the ID_STATUT of its entry with the greatest ID_HIST (a bed's
\* status changes through the transition operation only).
C23_StatusIsLastEntry ==
    (\A p \in Procs : pc[p] = "idle") =>
       \A id \in DOMAIN lits :
          (\E i \in DOMAIN hist : hist[i].ID_LIT = id) =>
             lits[id].ID_STATUT = LastEntryOf(id).ID_STATUT

\* C24: the save of a transition, also of one whose target is the bed's
\* current status, leaves the bed with the server time of the transition as
\* MAJ_STATUT, so that MAJ_STATUT never decreases.
C24_MajStatutIsTransitionTime ==
    [][\A p \in Procs :
         Saved(p) =>
            /\ lits'[req[p].bedId].MAJ_STATUT = now
            /\ lits'[req[p].bedId].MAJ_STATUT >= lits[req[p].bedId].MAJ_STATUT
      ]_vars

\* C25: a bed that the ledger references is never hard-deleted: every
\* ID_LIT of the ledger identifies a stored bed, whatever deletions of beds,
\* services and sectors were served.
C25_LedgerBedsExist ==
    \A i \in DOMAIN hist : hist[i].ID_LIT \in DOMAIN lits

\* C26: for each bed, an entry's STATUT_PRECEDENT is the ID_STATUT of the
\* bed's entry with the next smaller ID_HIST, also when the transitions were
\* served concurrently.
C26_PrecedentChain ==
    \A i, j \in DOMAIN hist :
       (/\ hist[i].ID_LIT = hist[j].ID_LIT
        /\ hist[i].ID_HIST < hist[j].ID_HIST
        /\ ~ \E k \in DOMAIN hist :
               /\ hist[k].ID_LIT = hist[i].ID_LIT
               /\ hist[i].ID_HIST < hist[k].ID_HIST
               /\ hist[k].ID_HIST < hist[j].ID_HIST)
       => hist[j].STATUT_PRECEDENT = hist[i].ID_STATUT

KeptFields(b) == <<b.ID_LIT, b.ID_SERVICE, b.GENDER, b.isEmergency, b.ACTIF>>

C29_CreationIdIsFresh ==
    [][\A p \in Procs :
         (pc[p] = "create_save" /\ Acts(p)) =>
            IF resp'[p].code = 201
              THEN \E id \in DOMAIN lits' \ DOMAIN lits :
                      /\ DOMAIN lits' = DOMAIN lits \cup {id}
                      /\ id \notin issued
                      /\ id[1] = req[p].body.ID_SERVICE
                      /\ id[2] \in 1..99
                      /\ lits'[id].ID_STATUT = Libre
              ELSE lits' = lits
      ]_vars

\* C30: whenever no request is being served, every bed's ID_SERVICE
\* identifies a stored service, every service's ID_SECTEUR identifies a
\* stored sector, and no user's SERVICES_AUTORISES holds a service that is
\* not stored.
C30_NoOrphans ==
    (\A p \in Procs : pc[p] = "idle") =>
       /\ \A id \in DOMAIN lits : lits[id].ID_SERVICE \in DOMAIN services
       /\ \A s \in DOMAIN services : services[s].ID_SECTEUR \in secteurs
       /\ \A u \in DOMAIN utilisateurs : utilisateurs[u] \subseteq DOMAIN services

====
